---- MODULE Spec2Model ----
(***************************************************************************)
(* VOXX server (src/server/main.py): one voice request handled either by   *)
(* the streaming entry point voice_websocket or by the request/response    *)
(* entry point process_voice_command, together with its environment: the   *)
(* client, the transcription collaborator, the child process `claude`,     *)
(* the wall clock, the temporary-file namespace and the health-check       *)
(* handler root() that shares the event loop with the voice handler.       *)
(*                                                                         *)
(* Text is a sequence of one-character strings followed by `pad` copies    *)
(* of the filler letter "z" (no keyword begins or ends with it), so that   *)
(* a text longer than the 1000-character cap is represented exactly        *)
(* without a 1001-element sequence in every state.                         *)
(***************************************************************************)
EXTENDS Integers, Sequences, FiniteSets, TLC

\* ------------------------------------------------------------ bounds
\* Most lines the child process writes to its standard output.
MaxLines == 2
\* Names of the temporary-file namespace.
NumNames == 2
\* Longest text typed when determine_complexity is exercised by itself.
MaxTextLen == 10

\* ------------------------------------------------- program constants
MAX_AUDIO_SIZE_MB == 25
MaxCommandLen == 1000
SimpleTimeout == 60
StandardTimeout == 90
ComplexTimeout == 120

\* ---------------------------------------------------------------- text
UpperCase == <<"A","B","C","D","E","F","G","H","I","J","K","L","M",
               "N","O","P","Q","R","S","T","U","V","W","X","Y","Z">>
LowerCase == <<"a","b","c","d","e","f","g","h","i","j","k","l","m",
               "n","o","p","q","r","s","t","u","v","w","x","y","z">>

\* str.lower() on one character
LowerChar(c) ==
    IF \E i \in 1..26 : UpperCase[i] = c
    THEN LowerCase[CHOOSE i \in 1..26 : UpperCase[i] = c]
    ELSE c

\* str.lower()
Lower(t) == [head |-> [i \in 1..Len(t.head) |-> LowerChar(t.head[i])], pad |-> t.pad]

Whitespace == {" ", "\n", "\t"}

RECURSIVE LStrip(_)
LStrip(s) == IF s # <<>> /\ Head(s) \in Whitespace THEN LStrip(Tail(s)) ELSE s

RECURSIVE RStrip(_)
RStrip(s) ==
    IF s # <<>> /\ s[Len(s)] \in Whitespace THEN RStrip(SubSeq(s, 1, Len(s) - 1)) ELSE s

\* str.strip(): the filler letters, when present, end the text, so only the
\* left side of the head can carry removable whitespace
Strip(t) ==
    IF t.pad > 0 THEN [head |-> LStrip(t.head), pad |-> t.pad]
    ELSE [head |-> RStrip(LStrip(t.head)), pad |-> 0]

\* len()
TextLen(t) == Len(t.head) + t.pad

\* `keyword in text`: substring test; no keyword begins or ends with the
\* filler letter, so a match lies within the head
Contains(t, kw) ==
    \E i \in 1..(Len(t.head) - Len(kw) + 1) : SubSeq(t.head, i, i + Len(kw) - 1) = kw

COMPLEX_KEYWORDS ==
    { <<"r","e","f","a","c","t","o","r">>, <<"a","n","a","l","y","z","e">>,
      <<"o","p","t","i","m","i","z","e">>,
      <<"t","e","s","t"," ","s","u","i","t","e">>,
      <<"f","u","l","l"," ","t","e","s","t">>, <<"e","n","t","i","r","e">> }

SIMPLE_KEYWORDS ==
    { <<"f","i","x">>, <<"a","d","d">>, <<"c","h","a","n","g","e">>,
      <<"u","p","d","a","t","e">>, <<"c","r","e","a","t","e">> }

\* Variant: the simple keywords tested first
determine_complexity_SimpleFirst(command) ==
    LET command_lower == Lower(command) IN
    IF \E keyword \in SIMPLE_KEYWORDS : Contains(command_lower, keyword) THEN "simple"
    ELSE IF \E keyword \in COMPLEX_KEYWORDS : Contains(command_lower, keyword) THEN "complex"
    ELSE "standard"

determine_complexity(command) ==
    LET command_lower == Lower(command) IN
    IF \E keyword \in COMPLEX_KEYWORDS : Contains(command_lower, keyword) THEN "complex"
    ELSE IF \E keyword \in SIMPLE_KEYWORDS : Contains(command_lower, keyword) THEN "simple"
    ELSE "standard"

\* timeout_map.get(complexity, 90)
timeout_map(complexity) ==
    CASE complexity = "simple" -> SimpleTimeout
      [] complexity = "standard" -> StandardTimeout
      [] complexity = "complex" -> ComplexTimeout
      [] OTHER -> StandardTimeout

\* Variant: the streaming copy of the table out of step with the other
ws_timeout_map_Drift(complexity) ==
    CASE complexity = "simple" -> 60
      [] complexity = "standard" -> 90
      [] complexity = "complex" -> 90
      [] OTHER -> 90

\* voice_websocket's own table:
\* {'simple': 60, 'standard': 90, 'complex': 120}.get(complexity, 90)
ws_timeout_map(complexity) ==
    CASE complexity = "simple" -> 60
      [] complexity = "standard" -> 90
      [] complexity = "complex" -> 120
      [] OTHER -> 90

\* ------------------------------------------------------------- inputs
MaxBytes == MAX_AUDIO_SIZE_MB * 1024 * 1024

ALLOWED_AUDIO_TYPES ==
    { "audio/mp4", "audio/x-m4a", "audio/m4a", "audio/mpeg", "audio/wav",
      "audio/x-wav", "audio/mp3", "audio/aac", "audio/x-aac", "audio/3gpp",
      "audio/3gpp2", "video/mp4", "video/3gpp", "application/octet-stream" }

\* file.file.read(2048): the header window
HeaderWindow == 2048

\* Audio payloads a client uploads: size in bytes, the type libmagic sniffs,
\* the read position of the upload's file object (at the start when the
\* handler is entered) and the content bytes read from it so far.
Payloads ==
    { [size |-> 2 * HeaderWindow, mime |-> "audio/mp4", pos |-> 0, read |-> 0],
      [size |-> MaxBytes + 1, mime |-> "audio/mp4", pos |-> 0, read |-> 0],
      [size |-> 100, mime |-> "text/plain", pos |-> 0, read |-> 0] }

NoPayload == [size |-> 0, mime |-> "", pos |-> 0, read |-> 0]
NoText == [head |-> <<>>, pad |-> 0]

\* Texts the transcription collaborator returns (before strip()).
Transcripts ==
    { [head |-> <<" ", "\n">>, pad |-> 0],
      [head |-> <<"F","i","x">>, pad |-> 0],
      [head |-> <<"e","n","t","i","r","e">>, pad |-> 0],
      [head |-> <<"h","i"," ">>, pad |-> 0],
      [head |-> <<"h","i">>, pad |-> MaxCommandLen - 1] }

\* validate_audio_file: 200 stands for `return True`, 413 and 415 for the
\* HTTPException raised.
validate_audio_file(file) ==
    IF file.size > MaxBytes THEN 413
    ELSE IF file.mime \notin ALLOWED_AUDIO_TYPES THEN 415
    ELSE 200

\* file.file.seek(p)
Seek(file, p) == [file EXCEPT !.pos = p]

\* file.file.read(n): at most n bytes from the read position on
Read(file, n) ==
    LET k == IF file.size - file.pos < n THEN file.size - file.pos ELSE n IN
    [file EXCEPT !.pos = @ + k, !.read = @ + k]

\* Variant: the header is read and the position left behind it
FileAfterValidate_NoRewind(file) ==
    LET atEnd == Seek(file, file.size)
        file_size == atEnd.pos
        rewound == Seek(atEnd, 0)
    IN IF file_size > MaxBytes THEN rewound ELSE Read(rewound, HeaderWindow)

\* validate_audio_file, its effect on the file object: seek(0, 2), tell(),
\* seek(0); past the size check read(2048), seek(0)
FileAfterValidate(file) ==
    LET atEnd == Seek(file, file.size)
        file_size == atEnd.pos
        rewound == Seek(atEnd, 0)
    IN IF file_size > MaxBytes THEN rewound
       ELSE Seek(Read(rewound, HeaderWindow), 0)

Names == 1..NumNames

\* -------------------------------------------------------------- state
VARIABLES
    mode,           \* entry point of the voice request: "ws" or "http"
    pc,             \* position of the voice handler
    client,         \* "connected", or "gone:<session state at disconnect>"
    delivered,      \* events the client has received, in order
    payload,        \* audio payload of the request
    tempFile,       \* temp_file_path (0: None)
    tempExists,     \* the file temp_file_path names is on disk
    otherFiles,     \* temporary files of other requests, in the same namespace
    transcription,  \* transcription (stripped text)
    complexity,     \* complexity ("" before classification)
    child,          \* "none", "running", "closed" (stdout at EOF), "exited", "killed"
    exitCode,       \* returncode of the child
    inBudget,       \* the child exited by itself while the budget had not elapsed
    produced,       \* lines the child has written to stdout
    partial,        \* the last of them lacks its line terminator
    stderrData,     \* the child has written to stderr
    pipe,           \* lines in the OS pipe of stdout
    buf,            \* lines in the read buffer of process.stdout
    line,           \* line (0: none)
    clock,          \* seconds since the child was started
    audit,          \* AUDIT records logged
    result,         \* execution_result of execute_claude_code
    response        \* what process_voice_command answers (status 0: nothing yet)

reqVars == <<mode, payload>>
fileVars == <<tempFile, tempExists>>
textVars == <<transcription, complexity>>
procVars == <<child, exitCode, inBudget>>
ioVars == <<produced, partial, stderrData, pipe, buf>>
outVars == <<audit, result, response>>

vars == <<mode, pc, client, delivered, payload, tempFile, tempExists, otherFiles,
          transcription, complexity, child, exitCode, inBudget, produced, partial,
          stderrData, pipe, buf, line, clock, audit, result, response>>

NoOutput == [from |-> {}, literal |-> ""]
NoBody == [command |-> NoText, text |-> NoOutput, success |-> FALSE, complexity |-> "",
           execution_time |-> 0, timestamp |-> ""]
NoResponse == [status |-> 0, detail |-> "", body |-> NoBody]

NoResult == [text |-> NoOutput, success |-> FALSE, complexity |-> "", execution_time |-> 0,
             exit_code |-> 0]

Init ==
    /\ mode \in {"ws", "http"}
    /\ pc = IF mode = "ws" THEN "ws_connected" ELSE "http_validate"
    /\ client = "connected"
    /\ delivered = <<>>
    /\ payload \in (IF mode = "ws" THEN {NoPayload} ELSE Payloads)
    /\ tempFile = 0
    /\ tempExists = FALSE
    /\ otherFiles = {}
    /\ transcription = NoText
    /\ complexity = ""
    /\ child = "none"
    /\ exitCode = 0
    /\ inBudget = FALSE
    /\ produced = 0
    /\ partial = FALSE
    /\ stderrData = FALSE
    /\ pipe = <<>>
    /\ buf = <<>>
    /\ line = 0
    /\ clock = 0
    /\ audit = 0
    /\ result = NoResult
    /\ response = NoResponse

\* ------------------------------------------------------- environment
Alive == child \in {"running", "closed"}

\* timeout: each entry point looks the tier up in its own table
timeout == IF mode = "ws" THEN ws_timeout_map(complexity) ELSE timeout_map(complexity)

\* The streaming handler is between Popen and the end of its try block.
Executing ==
    /\ Alive
    /\ pc \in {"ws_check", "ws_poll", "ws_readline", "ws_send_chunk", "ws_wait"}

\* subprocess.run ends the child at the instant its budget elapses, so under
\* the blocking entry point the child takes no step after that instant.
BudgetOpen == mode = "http" => clock <= timeout

\* The client closes the connection (streaming entry point only).
ClientDisconnect ==
    /\ mode = "ws" /\ pc # "done" /\ client = "connected"
    /\ client' = IF Executing THEN "gone_executing" ELSE "gone"
    /\ UNCHANGED <<mode, pc, delivered, payload, tempFile, tempExists, otherFiles,
                   transcription, complexity, child, exitCode, inBudget, produced,
                   partial, stderrData, pipe, buf, line, clock, audit, result,
                   response>>

\* The child writes k complete lines to stdout in one write.
ChildWrite(k) ==
    /\ child = "running" /\ ~partial /\ BudgetOpen
    /\ produced + k <= MaxLines
    /\ pipe' = pipe \o [i \in 1..k |-> produced + i]
    /\ produced' = produced + k
    /\ UNCHANGED <<mode, pc, client, delivered, payload, tempFile, tempExists,
                   otherFiles, transcription, complexity, child, exitCode, inBudget,
                   partial, stderrData, buf, line, clock, audit, result, response>>

\* The child writes the start of a line and no line terminator; it writes
\* nothing to stdout after that.
ChildWritePartial ==
    /\ child = "running" /\ ~partial /\ BudgetOpen
    /\ produced < MaxLines
    /\ pipe' = Append(pipe, produced + 1)
    /\ produced' = produced + 1
    /\ partial' = TRUE
    /\ UNCHANGED <<mode, pc, client, delivered, payload, tempFile, tempExists,
                   otherFiles, transcription, complexity, child, exitCode, inBudget,
                   stderrData, buf, line, clock, audit, result, response>>

\* The child writes to stderr. Only subprocess.run reads that pipe; the
\* streaming handler never does, and what is written there is then no part
\* of the state.
ChildWriteStderr ==
    /\ mode = "http"
    /\ Alive /\ ~stderrData /\ BudgetOpen
    /\ stderrData' = TRUE
    /\ UNCHANGED <<mode, pc, client, delivered, payload, tempFile, tempExists,
                   otherFiles, transcription, complexity, child, exitCode, inBudget,
                   produced, partial, pipe, buf, line, clock, audit, result, response>>

\* The child closes its standard output (end of output for the reader).
ChildClose ==
    /\ child = "running" /\ BudgetOpen
    /\ child' = "closed"
    /\ UNCHANGED <<mode, pc, client, delivered, payload, tempFile, tempExists,
                   otherFiles, transcription, complexity, exitCode, inBudget, produced,
                   partial, stderrData, pipe, buf, line, clock, audit, result, response>>

\* The child exits by itself with status code.
ChildExit(code) ==
    /\ child = "closed" /\ BudgetOpen
    /\ child' = "exited"
    /\ exitCode' = code
    /\ inBudget' = (clock <= timeout)
    /\ UNCHANGED <<mode, pc, client, delivered, payload, tempFile, tempExists,
                   otherFiles, transcription, complexity, produced, partial, stderrData,
                   pipe, buf, line, clock, audit, result, response>>

\* Time passes; the instants that matter are the budget and the one after it.
Tick ==
    /\ child # "none" /\ pc # "done"
    /\ clock <= timeout
    /\ clock' = IF clock < timeout THEN timeout ELSE timeout + 1
    /\ UNCHANGED <<mode, pc, client, delivered, payload, tempFile, tempExists,
                   otherFiles, transcription, complexity, child, exitCode, inBudget,
                   produced, partial, stderrData, pipe, buf, line, audit, result,
                   response>>

\* Another request creates its temporary file: NamedTemporaryFile never
\* returns a name that exists.
OtherTempCreate(n) ==
    /\ pc # "done"
    /\ n \notin otherFiles /\ ~(tempExists /\ n = tempFile)
    /\ Cardinality(otherFiles) < NumNames - 1
    /\ otherFiles' = otherFiles \cup {n}
    /\ UNCHANGED <<mode, pc, client, delivered, payload, tempFile, tempExists,
                   transcription, complexity, child, exitCode, inBudget, produced,
                   partial, stderrData, pipe, buf, line, clock, audit, result,
                   response>>

\* Another request deletes its temporary file.
OtherTempDelete(n) ==
    /\ pc # "done"
    /\ n \in otherFiles
    /\ otherFiles' = otherFiles \ {n}
    /\ UNCHANGED <<mode, pc, client, delivered, payload, tempFile, tempExists,
                   transcription, complexity, child, exitCode, inBudget, produced,
                   partial, stderrData, pipe, buf, line, clock, audit, result,
                   response>>

\* The voice handler is inside a blocking call: the event loop's only thread
\* runs it and no other handler.
LoopHeld ==
    pc \in {"ws_transcribe", "ws_poll", "ws_readline", "ws_wait",
            "http_transcribe", "http_run"}

\* async def root(): the health check, a handler of another request on the
\* same event loop; it runs when the loop is free and touches nothing of the
\* voice request.
root ==
    /\ pc # "done" /\ ~LoopHeld
    /\ UNCHANGED vars

\* ------------------------------------------- streaming entry point
Ev(type, msg, n) == [type |-> type, msg |-> msg, n |-> n]

\* await websocket.send_json(ev): delivered while the client is connected;
\* once the client is gone the call raises WebSocketDisconnect or another
\* exception, depending on the server library.
WsSend(ev, next, onDisconnect, onException) ==
    \/ /\ client = "connected"
       /\ delivered' = Append(delivered, ev)
       /\ pc' = next
    \/ /\ client # "connected"
       /\ delivered' = delivered
       /\ pc' \in {onDisconnect, onException}

\* tempfile.NamedTemporaryFile(delete=False): the names it may return.
NamedTemporaryFile == Names \ otherFiles

\* transcribe_audio: the collaborator's text, stripped.
transcribe_audio(raw) == Strip(raw)

\* process.kill()
Kill ==
    /\ child' = IF Alive THEN "killed" ELSE child
    /\ exitCode' = IF Alive THEN -9 ELSE exitCode
    /\ inBudget' = inBudget

WsSendConnected ==
    /\ mode = "ws" /\ pc = "ws_connected"
    /\ WsSend(Ev("connected", "Ready to receive audio", 0),
              "ws_status_receiving", "ws_finally", "ws_except_exception")
    /\ UNCHANGED <<reqVars, client, fileVars, otherFiles, textVars, procVars, ioVars,
                   line, clock, outVars>>

WsSendReceiving ==
    /\ pc = "ws_status_receiving"
    /\ WsSend(Ev("status", "Receiving audio...", 0),
              "ws_receive", "ws_finally", "ws_except_exception")
    /\ UNCHANGED <<reqVars, client, fileVars, otherFiles, textVars, procVars, ioVars,
                   line, clock, outVars>>

\* await websocket.receive_bytes(), then the audio is saved to a new
\* temporary file. A text frame has no "bytes" key (KeyError); the write
\* may fail after the file was created.
WsReceiveBytes ==
    /\ pc = "ws_receive"
    /\ \/ /\ client = "connected"
          /\ \E p \in Payloads, n \in NamedTemporaryFile, written \in BOOLEAN :
                /\ payload' = p
                /\ tempFile' = n
                /\ tempExists' = TRUE
                /\ pc' = IF written THEN "ws_status_transcribing"
                         ELSE "ws_except_exception"
       \/ /\ client = "connected"
          /\ pc' = "ws_except_exception"
          /\ UNCHANGED <<payload, fileVars>>
       \/ /\ client # "connected"
          /\ pc' = "ws_finally"
          /\ UNCHANGED <<payload, fileVars>>
    /\ UNCHANGED <<mode, client, delivered, otherFiles, textVars, procVars, ioVars,
                   line, clock, outVars>>

WsSendTranscribing ==
    /\ pc = "ws_status_transcribing"
    /\ WsSend(Ev("status", "Transcribing audio with Whisper...", 0),
              "ws_transcribe", "ws_finally", "ws_except_exception")
    /\ UNCHANGED <<reqVars, client, fileVars, otherFiles, textVars, procVars, ioVars,
                   line, clock, outVars>>

\* transcription = transcribe_audio(temp_file_path), or its HTTPException
WsTranscribe ==
    /\ pc = "ws_transcribe"
    /\ \/ \E raw \in Transcripts :
             /\ transcription' = transcribe_audio(raw)
             /\ pc' = "ws_send_transcription"
       \/ /\ pc' = "ws_send_trans_error"
          /\ UNCHANGED transcription
    /\ UNCHANGED <<reqVars, client, delivered, fileVars, otherFiles, complexity,
                   procVars, ioVars, line, clock, outVars>>

\* send of the transcription event, inside the inner try: whatever it raises
\* is handled as a transcription error. On success the text is classified.
WsSendTranscription ==
    /\ pc = "ws_send_transcription"
    /\ WsSend(Ev("transcription", "text", TextLen(transcription)),
              "ws_send_complexity", "ws_send_trans_error", "ws_send_trans_error")
    /\ complexity' = IF client = "connected" THEN determine_complexity(transcription)
                     ELSE complexity
    /\ UNCHANGED <<reqVars, client, fileVars, otherFiles, transcription, procVars,
                   ioVars, line, clock, outVars>>

\* Variant: the inner handler without its return: the session goes on
WsSendTransError_NoReturn ==
    /\ pc = "ws_send_trans_error"
    /\ WsSend(Ev("error", "Transcription failed", 0),
              "ws_send_complexity", "ws_finally", "ws_except_exception")
    /\ UNCHANGED <<reqVars, client, fileVars, otherFiles, textVars, procVars, ioVars,
                   line, clock, outVars>>

\* except Exception (inner): error event, then return
WsSendTransError ==
    /\ pc = "ws_send_trans_error"
    /\ WsSend(Ev("error", "Transcription failed", 0),
              "ws_finally", "ws_finally", "ws_except_exception")
    /\ UNCHANGED <<reqVars, client, fileVars, otherFiles, textVars, procVars, ioVars,
                   line, clock, outVars>>

WsSendComplexity ==
    /\ pc = "ws_send_complexity"
    /\ WsSend(Ev("complexity", complexity, 0),
              "ws_send_executing", "ws_finally", "ws_except_exception")
    /\ UNCHANGED <<reqVars, client, fileVars, otherFiles, textVars, procVars, ioVars,
                   line, clock, outVars>>

\* status event "Executing", then subprocess.Popen: the child runs, or the
\* executable is missing (FileNotFoundError). start_poll is taken and the
\* first budget check follows at once, so the handler next waits in poll.
WsSendExecuting ==
    /\ pc = "ws_send_executing"
    /\ \/ /\ client = "connected"
          /\ delivered' = Append(delivered, Ev("status", "Executing", 0))
          /\ \/ /\ child' = "running"
                /\ pc' = "ws_poll"
             \/ /\ child' = child
                /\ pc' = "ws_except_exception"
       \/ /\ client # "connected"
          /\ pc' \in {"ws_finally", "ws_except_exception"}
          /\ UNCHANGED <<delivered, child>>
    /\ clock' = 0
    /\ UNCHANGED <<reqVars, client, fileVars, otherFiles, textVars, exitCode, inBudget,
                   ioVars, line, outVars>>

\* top of the loop: if time.time() - start_poll > timeout: kill, raise
WsCheck ==
    /\ pc = "ws_check"
    /\ IF clock > timeout
       THEN Kill /\ pc' = "ws_send_timeout"
       ELSE pc' = "ws_poll" /\ UNCHANGED procVars
    /\ UNCHANGED <<reqVars, client, delivered, fileVars, otherFiles, textVars, ioVars,
                   line, clock, outVars>>

\* poll.poll(1000) watches the pipe, not the read buffer: it reports the pipe
\* readable when it holds data or is at end of file.
PipeReady == pipe # <<>> \/ child # "running"

WsPollReady ==
    /\ pc = "ws_poll" /\ PipeReady
    /\ pc' = "ws_readline"
    /\ UNCHANGED <<reqVars, client, delivered, fileVars, otherFiles, textVars, procVars,
                   ioVars, line, clock, outVars>>

\* poll.poll(1000) returns nothing after one second
WsPollEmpty ==
    /\ pc = "ws_poll" /\ ~PipeReady
    /\ pc' = "ws_check"
    /\ UNCHANGED <<reqVars, client, delivered, fileVars, otherFiles, textVars, procVars,
                   ioVars, line, clock, outVars>>

\* Line l of the child's output has its line terminator.
Terminated(l) == ~(partial /\ l = produced)

\* process.stdout.readline(): a buffered complete line is returned without a
\* read; otherwise the pipe is read into the buffer, and the call returns a
\* complete line, or at end of file what is left ('' when nothing is), or
\* keeps waiting for the line terminator. The pipe is opened with text=True:
\* a line that is not valid text raises UnicodeDecodeError.
WsReadline ==
    /\ pc = "ws_readline"
    /\ IF buf # <<>> /\ Terminated(Head(buf))
       THEN /\ line' = Head(buf)
            /\ buf' = Tail(buf)
            /\ pipe' = pipe
            /\ pc' = "ws_send_chunk"
       ELSE LET read == buf \o pipe IN
            /\ pipe # <<>> \/ child # "running"
            /\ pipe' = <<>>
            /\ IF read # <<>> /\ (Terminated(Head(read)) \/ child # "running")
               THEN /\ buf' = Tail(read)
                    /\ \/ line' = Head(read) /\ pc' = "ws_send_chunk"
                       \/ line' = 0 /\ pc' = "ws_except_exception"
               ELSE /\ line' = 0
                    /\ buf' = read
                    /\ pc' = IF read = <<>> THEN "ws_wait" ELSE "ws_readline"
    /\ UNCHANGED <<reqVars, client, delivered, fileVars, otherFiles, textVars, procVars,
                   produced, partial, stderrData, clock, outVars>>

WsSendChunk ==
    /\ pc = "ws_send_chunk"
    /\ WsSend(Ev("response_chunk", "line", line),
              "ws_check", "ws_finally", "ws_except_exception")
    /\ line' = 0
    /\ UNCHANGED <<reqVars, client, fileVars, otherFiles, textVars, procVars, ioVars,
                   clock, outVars>>

\* Variant: the exit of the child is not waited for
WsWait_NoWait ==
    /\ pc = "ws_wait"
    /\ audit' = audit + 1
    /\ pc' = "ws_send_complete"
    /\ UNCHANGED <<reqVars, client, delivered, fileVars, otherFiles, textVars, procVars,
                   ioVars, line, clock, result, response>>

\* process.wait(timeout=5) returns: the AUDIT record is logged
WsWait ==
    /\ pc = "ws_wait" /\ ~Alive
    /\ audit' = audit + 1
    /\ pc' = "ws_send_complete"
    /\ UNCHANGED <<reqVars, client, delivered, fileVars, otherFiles, textVars, procVars,
                   ioVars, line, clock, result, response>>

\* process.wait(timeout=5) raises TimeoutExpired
WsWaitTimeout ==
    /\ pc = "ws_wait" /\ Alive
    /\ pc' = "ws_send_timeout"
    /\ UNCHANGED <<reqVars, client, delivered, fileVars, otherFiles, textVars, procVars,
                   ioVars, line, clock, outVars>>

WsSendComplete ==
    /\ pc = "ws_send_complete"
    /\ WsSend(Ev("complete", complexity, IF exitCode = 0 THEN 1 ELSE 0),
              "ws_finally", "ws_finally", "ws_except_exception")
    /\ UNCHANGED <<reqVars, client, fileVars, otherFiles, textVars, procVars, ioVars,
                   line, clock, outVars>>

\* Variant: process.kill() ahead of the error event
WsSendTimeout_KillFirst ==
    /\ pc = "ws_send_timeout"
    /\ Kill
    /\ WsSend([type |-> "error", msg |-> "Command timed out", n |-> timeout],
              "ws_finally", "ws_finally", "ws_except_exception")
    /\ UNCHANGED <<reqVars, client, fileVars, otherFiles, textVars, ioVars, line,
                   clock, outVars>>

\* except subprocess.TimeoutExpired: error event, then process.kill()
WsSendTimeout ==
    /\ pc = "ws_send_timeout"
    /\ WsSend(Ev("error", "Command timed out", timeout),
              "ws_finally", "ws_finally", "ws_except_exception")
    /\ IF client = "connected" THEN Kill ELSE UNCHANGED procVars
    /\ UNCHANGED <<reqVars, client, fileVars, otherFiles, textVars, ioVars, line,
                   clock, outVars>>

\* except Exception (outer): the error event is attempted, a failure ignored
WsExceptException ==
    /\ pc = "ws_except_exception"
    /\ delivered' = IF client = "connected"
                    THEN Append(delivered, Ev("error", "Server error", 0))
                    ELSE delivered
    /\ pc' = "ws_finally"
    /\ UNCHANGED <<reqVars, client, fileVars, otherFiles, textVars, procVars, ioVars,
                   line, clock, outVars>>

\* Variant: a finally block that unlinks nothing
CleanupTemp_NoUnlink == tempExists

\* finally: if temp_file_path and os.path.exists(temp_file_path): os.unlink
CleanupTemp == IF tempFile # 0 /\ tempExists THEN FALSE ELSE tempExists

\* finally: the temporary file is unlinked when it exists; websocket.close()
WsFinally ==
    /\ pc = "ws_finally"
    /\ tempExists' = CleanupTemp
    /\ pc' = "done"
    /\ UNCHANGED <<reqVars, client, delivered, tempFile, otherFiles, textVars, procVars,
                   ioVars, line, clock, outVars>>

\* ------------------------------------ request/response entry point
HttpError(status, detail) == [status |-> status, detail |-> detail, body |-> NoBody]

\* validate_audio_file(audio); its HTTPException is re-raised
HttpValidate ==
    /\ mode = "http" /\ pc = "http_validate"
    /\ LET v == validate_audio_file(payload) IN
       IF v = 200
       THEN pc' = "http_save" /\ UNCHANGED response
       ELSE /\ response' = HttpError(v, IF v = 413 THEN "File too large"
                                       ELSE "Invalid audio format")
            /\ pc' = "http_finally"
    /\ payload' = FileAfterValidate(payload)
    /\ UNCHANGED <<mode, client, delivered, fileVars, otherFiles, textVars, procVars,
                   ioVars, line, clock, audit, result>>

\* the temporary file is created, the upload read from its read position to
\* its end (await audio.read()) and written to the file; a failure of the
\* write is an unexpected error (500)
HttpSave ==
    /\ pc = "http_save"
    /\ \E n \in NamedTemporaryFile, written \in BOOLEAN :
          /\ tempFile' = n
          /\ tempExists' = TRUE
          /\ IF written
             THEN pc' = "http_transcribe" /\ UNCHANGED response
             ELSE /\ response' = HttpError(500, "Internal server error")
                  /\ pc' = "http_finally"
    /\ payload' = Read(payload, payload.size)
    /\ UNCHANGED <<mode, client, delivered, otherFiles, textVars, procVars, ioVars,
                   line, clock, audit, result>>

\* execute_claude_code, first lines: if not command or len(command) > 1000
InvalidCommandLength(command) == TextLen(command) = 0 \/ TextLen(command) > MaxCommandLen

\* transcribe_audio returns or raises; an empty transcription is refused;
\* then determine_complexity, and execute_claude_code up to the start of the
\* child (subprocess.run), whose executable may be missing
HttpTranscribe ==
    /\ pc = "http_transcribe"
    /\ \/ /\ response' = HttpError(500, "Speech-to-text failed")
          /\ pc' = "http_finally"
          /\ UNCHANGED <<textVars, child>>
       \/ \E raw \in Transcripts :
            LET text == transcribe_audio(raw) IN
            /\ transcription' = text
            /\ IF TextLen(text) = 0
               THEN /\ response' = HttpError(400, "No speech detected in audio")
                    /\ pc' = "http_finally"
                    /\ UNCHANGED <<complexity, child>>
               ELSE /\ complexity' = determine_complexity(text)
                    /\ IF InvalidCommandLength(text)
                       THEN /\ response' = HttpError(400, "Invalid command length")
                            /\ pc' = "http_finally"
                            /\ child' = child
                       ELSE \/ /\ child' = "running"
                               /\ pc' = "http_run"
                               /\ UNCHANGED response
                            \/ /\ response' = HttpError(500, "Claude Code CLI not installed or not in PATH")
                               /\ pc' = "http_finally"
                               /\ child' = child
    /\ clock' = 0
    /\ UNCHANGED <<reqVars, client, delivered, fileVars, otherFiles, exitCode, inBudget,
                   ioVars, line, audit, result>>

\* Variant: no placeholder for an output that is empty
Output_NoPlaceholder(success) ==
    IF produced > 0 THEN [from |-> {"stdout"}, literal |-> ""]
    ELSE IF stderrData THEN [from |-> {"stderr"}, literal |-> ""]
    ELSE [from |-> {}, literal |-> ""]

\* output = result.stdout if result.stdout else result.stderr, and the
\* placeholder when that is empty
Output(success) ==
    IF produced > 0 THEN [from |-> {"stdout"}, literal |-> ""]
    ELSE IF stderrData THEN [from |-> {"stderr"}, literal |-> ""]
    ELSE [from |-> {}, literal |-> IF success THEN "Command executed successfully"
                                   ELSE "Command failed with no output"]

\* JSONResponse(content=...)
Respond(r) ==
    [status |-> 200, detail |-> "",
     body |-> [command |-> transcription, text |-> r.text, success |-> r.success,
               complexity |-> complexity, execution_time |-> r.execution_time,
               timestamp |-> "utcnow"]]

\* subprocess.run returns: the child has exited and both pipes are drained;
\* the AUDIT record is logged and the response built
HttpRunExit ==
    /\ pc = "http_run" /\ child = "exited"
    /\ LET success == exitCode = 0
           r == [text |-> Output(success), success |-> success,
                 complexity |-> complexity, execution_time |-> clock,
                 exit_code |-> exitCode]
       IN /\ result' = r
          /\ response' = Respond(r)
    /\ audit' = audit + 1
    /\ pc' = "http_finally"
    /\ UNCHANGED <<reqVars, client, delivered, fileVars, otherFiles, textVars, procVars,
                   ioVars, line, clock>>

\* Variant: TimeoutExpired not caught by execute_claude_code; the caller
\* answers 500
HttpRunTimeout_Raised ==
    /\ pc = "http_run" /\ Alive /\ clock > timeout
    /\ Kill
    /\ response' = [status |-> 500, detail |-> "Internal server error", body |-> NoBody]
    /\ pc' = "http_finally"
    /\ UNCHANGED <<reqVars, client, delivered, fileVars, otherFiles, textVars, ioVars,
                   line, clock, audit, result>>

\* subprocess.run kills the child when the budget elapses and raises
\* TimeoutExpired, which execute_claude_code returns as an outcome
HttpRunTimeout ==
    /\ pc = "http_run" /\ Alive /\ clock > timeout
    /\ Kill
    /\ LET r == [text |-> [from |-> {}, literal |-> "Command execution timed out"],
                 success |-> FALSE, complexity |-> complexity,
                 execution_time |-> timeout, exit_code |-> -1]
       IN /\ result' = r
          /\ response' = Respond(r)
    /\ audit' = audit + 1
    /\ pc' = "http_finally"
    /\ UNCHANGED <<reqVars, client, delivered, fileVars, otherFiles, textVars, ioVars,
                   line, clock>>

\* subprocess.run raises another exception: with text=True the captured
\* output is decoded once the child has exited, and output that is no valid
\* text raises UnicodeDecodeError. execute_claude_code returns it as an
\* outcome (except Exception).
HttpRunError ==
    /\ pc = "http_run" /\ child = "exited"
    /\ produced > 0 \/ stderrData
    /\ LET r == [text |-> [from |-> {}, literal |-> "Execution error"],
                 success |-> FALSE, complexity |-> complexity,
                 execution_time |-> 0, exit_code |-> -1]
       IN /\ result' = r
          /\ response' = Respond(r)
    /\ audit' = audit + 1
    /\ pc' = "http_finally"
    /\ UNCHANGED <<reqVars, client, delivered, fileVars, otherFiles, textVars, procVars,
                   ioVars, line, clock>>

\* finally: the temporary file is unlinked when it exists
HttpFinally ==
    /\ pc = "http_finally"
    /\ tempExists' = CleanupTemp
    /\ pc' = "done"
    /\ UNCHANGED <<reqVars, client, delivered, tempFile, otherFiles, textVars, procVars,
                   ioVars, line, clock, outVars>>

\* ------------------------------------------------------ specification
Handler ==
    \/ WsSendConnected \/ WsSendReceiving \/ WsReceiveBytes \/ WsSendTranscribing
    \/ WsTranscribe \/ WsSendTranscription \/ WsSendTransError \/ WsSendComplexity
    \/ WsSendExecuting \/ WsCheck \/ WsPollReady \/ WsPollEmpty \/ WsReadline
    \/ WsSendChunk \/ WsWait \/ WsWaitTimeout \/ WsSendComplete \/ WsSendTimeout
    \/ WsExceptException \/ WsFinally
    \/ HttpValidate \/ HttpSave \/ HttpTranscribe \/ HttpRunExit \/ HttpRunTimeout \/ HttpRunError
    \/ HttpFinally

Environment ==
    \/ ClientDisconnect
    \/ \E k \in 1..MaxLines : ChildWrite(k)
    \/ ChildWritePartial \/ ChildWriteStderr \/ ChildClose
    \/ \E code \in {0, 1} : ChildExit(code)
    \/ Tick
    \/ \E n \in Names : OtherTempCreate(n)
    \/ \E n \in Names : OtherTempDelete(n)
    \/ root

Next == Handler \/ Environment

Spec == Init /\ [][Next]_vars

\* The handler is a running coroutine and takes its next step whenever it
\* can; time passes.
FairSpec == Spec /\ WF_vars(Handler) /\ WF_vars(Tick)

\* ----------------------------- determine_complexity exercised by itself
\* Pieces a command text is typed from; keywords of both lists arise whole,
\* across two pieces, in either case, and inside longer words.
Tokens ==
    { <<"F","i","x">>, <<"a","d","d">>, <<"U","p","d","a","t","e">>,
      <<"E","n","T","i","R","e">>, <<"r","e","f","a","c">>, <<"t","o","r">>,
      <<"t","e","s","t">>, <<" ">>, <<"s","u","i","t","e">>, <<"f","u","l","l">>,
      <<"x">>, <<"h","i">> }

FnInit ==
    /\ mode = "fn" /\ pc = "fn"
    /\ client = "connected" /\ delivered = <<>> /\ payload = NoPayload
    /\ tempFile = 0 /\ tempExists = FALSE /\ otherFiles = {}
    /\ transcription = NoText /\ complexity = ""
    /\ child = "none" /\ exitCode = 0 /\ inBudget = FALSE
    /\ produced = 0 /\ partial = FALSE /\ stderrData = FALSE
    /\ pipe = <<>> /\ buf = <<>> /\ line = 0 /\ clock = 0
    /\ audit = 0 /\ result = NoResult /\ response = NoResponse

\* The command text grows by one piece.
FnType(tok) ==
    /\ pc = "fn"
    /\ Len(transcription.head) + Len(tok) <= MaxTextLen
    /\ transcription' = [head |-> transcription.head \o tok, pad |-> 0]
    /\ complexity' = ""
    /\ UNCHANGED <<reqVars, pc, client, delivered, fileVars, otherFiles, procVars,
                   ioVars, line, clock, outVars>>

\* complexity = determine_complexity(transcription)
FnClassify ==
    /\ pc = "fn" /\ complexity = ""
    /\ complexity' = determine_complexity(transcription)
    /\ UNCHANGED <<reqVars, pc, client, delivered, fileVars, otherFiles, transcription,
                   procVars, ioVars, line, clock, outVars>>

\* The next command starts from the empty text.
FnClear ==
    /\ pc = "fn" /\ transcription # NoText
    /\ transcription' = NoText
    /\ complexity' = ""
    /\ UNCHANGED <<reqVars, pc, client, delivered, fileVars, otherFiles, procVars,
                   ioVars, line, clock, outVars>>

FnNext == (\E tok \in Tokens : FnType(tok)) \/ FnClassify \/ FnClear

FnSpec == FnInit /\ [][FnNext]_vars

\* ------------------------------------------------------------ claims
Terminal(e) == e.type \in {"complete", "error"}

HasTerminal == \E i \in DOMAIN delivered : Terminal(delivered[i])

TimeoutError == Ev("error", "Command timed out", timeout)

\* The events of a streaming session whose child wrote n lines and exited 0.
ExpectedEvents(n) ==
    << Ev("connected", "Ready to receive audio", 0),
       Ev("status", "Receiving audio...", 0),
       Ev("status", "Transcribing audio with Whisper...", 0),
       Ev("transcription", "text", TextLen(transcription)),
       Ev("complexity", complexity, 0),
       Ev("status", "Executing", 0) >>
    \o [i \in 1..n |-> Ev("response_chunk", "line", i)]
    \o << Ev("complete", complexity, 1) >>

ServerError == Ev("error", "Server error", 0)

\* C1: a finished streaming session whose client stayed connected, whose
\* handler met no unexpected internal error and whose child wrote its lines
\* and exited by itself with status 0 while the budget had not elapsed has
\* delivered exactly connected, awaiting-audio, transcribing, transcription,
\* complexity, executing, one response_chunk per line in the order written,
\* and complete(success=true).
C1_EventOrder ==
    (/\ mode = "ws" /\ pc = "done" /\ client = "connected"
     /\ child = "exited" /\ exitCode = 0 /\ inBudget
     /\ \A i \in DOMAIN delivered : delivered[i] # ServerError)
    => delivered = ExpectedEvents(produced)

\* C2: the client receives at most one terminal event (complete or error),
\* no event of any type after it, and a session that ends with the client
\* still connected has delivered one.
C2_OneTerminal ==
    mode = "ws" =>
      /\ Cardinality({i \in DOMAIN delivered : Terminal(delivered[i])}) <= 1
      /\ \A i \in DOMAIN delivered : Terminal(delivered[i]) => i = Len(delivered)
      /\ (pc = "done" /\ client = "connected") => HasTerminal

\* C2 witness: a session ended by a timeout error after chunks were forwarded.
C2_Witness ==
    /\ mode = "ws" /\ pc = "done" /\ client = "connected"
    /\ \E i \in DOMAIN delivered : delivered[i].type = "response_chunk"
    /\ delivered[Len(delivered)] = TimeoutError

\* C3: when the handler of a streaming session has finished after the client
\* disconnected while the child was running, the child is no longer running,
\* the temporary file is deleted and no terminal event was delivered.
C3_DisconnectKills ==
    (mode = "ws" /\ pc = "done" /\ client = "gone_executing")
    => (~Alive /\ ~tempExists /\ ~HasTerminal)

\* C4: when a handler has returned, no child it started is still running.
C4_NoOrphan == pc = "done" => ~Alive

OverBudget == Alive /\ clock > timeout

\* The timeout was reported and the child is not running.
TimeoutReported ==
    /\ ~Alive
    /\ IF mode = "http"
       THEN /\ ~result.success
            /\ result.text.literal = "Command execution timed out"
       ELSE \E i \in DOMAIN delivered : delivered[i] = TimeoutError

\* C6: whenever the budget has elapsed with the child still running, then
\* eventually the timeout is reported (sync: a failed outcome with the timeout
\* text; streaming: an error event) and the child is terminated, whatever the
\* child has written -- unless the child exits by itself, the client goes
\* away or the handler ends by an unexpected internal error first.
C6_TimeoutReported ==
    [](OverBudget =>
         <>(\/ TimeoutReported
            \/ child = "exited"
            \/ client # "connected"
            \/ \E i \in DOMAIN delivered : delivered[i] = ServerError))

\* C7: no child is ever started with an empty transcription.
C7_NoEmptySpawn == child # "none" => TextLen(transcription) > 0

\* C8: no child is ever started for a request whose payload fails validation
\* or whose transcription is longer than the cap, and the transcription
\* collaborator is not invoked for a payload that fails validation.
C8_ValidationRejects ==
    /\ child # "none" =>
          /\ validate_audio_file(payload) = 200
          /\ TextLen(transcription) <= MaxCommandLen
    /\ pc \in {"ws_transcribe", "http_transcribe"} => validate_audio_file(payload) = 200

\* C9: while the voice request is inside its transcription call or its
\* external-process invocation, the handler of another request (root) can
\* take a step.
C9_OthersProgress ==
    pc \in {"ws_transcribe", "http_transcribe", "http_run", "ws_poll", "ws_readline"}
    => ENABLED root

\* C10: a finished streaming session has logged one audit record when it
\* ended Completed or Errored (a terminal event was delivered) and none when
\* it ended Disconnected.
C10_AuditOnce ==
    (mode = "ws" /\ pc = "done") => audit = IF HasTerminal THEN 1 ELSE 0

\* execute_claude_code was called with a non-empty transcription within the
\* length cap and the request has been answered.
Executed ==
    /\ mode = "http" /\ pc \in {"http_finally", "done"}
    /\ complexity # "" /\ ~InvalidCommandLength(transcription)

\* The text of an outcome is not empty.
NonEmpty(text) == text.from # {} \/ text.literal # ""

C12_NonEmptyText ==
    (Executed /\ result # NoResult) =>
      /\ NonEmpty(result.text)
      /\ (child = "exited" /\ produced = 0 /\ ~stderrData) =>
            /\ result.text.from = {}
            /\ result.text.literal = IF exitCode = 0 THEN "Command executed successfully"
                                      ELSE "Command failed with no output"

\* C12 witness: the child exited with status 1 and wrote nothing.
C12_Witness ==
    /\ Executed /\ child = "exited" /\ exitCode = 1
    /\ produced = 0 /\ ~stderrData
    /\ result.text.literal = "Command failed with no output"

\* Keyword kw stands in text t at position i, letter case ignored.
MatchesAt(t, kw, i) ==
    /\ i + Len(kw) - 1 <= Len(t.head)
    /\ \A j \in 1..Len(kw) : LowerChar(t.head[i + j - 1]) = LowerChar(kw[j])

HasKeyword(t, kws) == \E kw \in kws : \E i \in 1..Len(t.head) : MatchesAt(t, kw, i)

\* The reference classification: complex wins over simple, neither is standard.
ReferenceTier(t) ==
    CASE HasKeyword(t, COMPLEX_KEYWORDS) -> "complex"
      [] ~HasKeyword(t, COMPLEX_KEYWORDS) /\ HasKeyword(t, SIMPLE_KEYWORDS) -> "simple"
      [] OTHER -> "standard"

\* C13: for every text, determine_complexity yields the tier of the
\* reference -- complex when a complex keyword stands in the text in any
\* letter case (even beside a simple keyword), else simple when a simple
\* keyword does, else standard -- and the two keyword lists share no keyword.
C13_MatchesReference ==
    /\ COMPLEX_KEYWORDS \cap SIMPLE_KEYWORDS = {}
    /\ (pc = "fn" /\ complexity # "") => complexity = ReferenceTier(transcription)

\* C13 witness: a text with a simple keyword and a complex keyword that is
\* not lower-case was classified complex.
C13_Witness ==
    /\ pc = "fn" /\ complexity = "complex"
    /\ HasKeyword(transcription, SIMPLE_KEYWORDS)
    /\ ~(\E kw \in COMPLEX_KEYWORDS : Contains(transcription, kw))

\* validate_audio_file has returned or raised and nothing has touched the
\* upload since.
Validated ==
    /\ mode = "http"
    /\ pc = "http_save" \/ response.status \in {413, 415}

\* C14: after validate_audio_file, whether it accepted the payload or
\* rejected it as too large or as of an unsupported format, the read position
\* of the upload is where it was before the call (the start), its content is
\* the same, at most the header window was read, and nothing of a payload
\* over the size limit was read.
C14_PayloadNotConsumed ==
    Validated =>
      /\ payload.pos = 0
      /\ [payload EXCEPT !.read = 0] \in Payloads
      /\ payload.read <= HeaderWindow
      /\ payload.size > MaxBytes => payload.read = 0

\* C14 witness: a payload longer than the header window was accepted, its
\* header read and the position put back.
C14_Witness ==
    /\ mode = "http" /\ pc = "http_save"
    /\ payload.size > HeaderWindow /\ payload.read = HeaderWindow /\ payload.pos = 0

\* C15: every successful response of process_voice_command carries the
\* transcript text, the output text, the success flag, the complexity tier,
\* the elapsed duration, the exit status and the timestamp.
C15_ResponseFields ==
    (mode = "http" /\ response.status = 200) =>
      /\ {"command", "text", "success", "complexity", "execution_time",
          "exit_code", "timestamp"} \subseteq DOMAIN response.body
      /\ response.body.command = transcription
      /\ response.body.text = result.text
      /\ response.body.success = result.success
      /\ response.body.complexity = complexity
      /\ response.body.execution_time = result.execution_time

\* C16: the streaming loop never waits on the pipe (poll with nothing to
\* report) while a complete line the child has written sits in the read
\* buffer: every complete line is forwarded without further output, exit of
\* the child or expiry of the budget.
C16_NoHeldLine ==
    (mode = "ws" /\ pc = "ws_poll" /\ ~PipeReady)
    => \A i \in DOMAIN buf : ~Terminated(buf[i])

\* C17: when the child wrote to standard output and to standard error and
\* subprocess.run returned, the text of the outcome holds the content of
\* both streams.
C17_BothStreams ==
    (/\ Executed /\ child = "exited" /\ result # NoResult /\ result.exit_code # -1
     /\ produced > 0 /\ stderrData)
    => result.text.from = {"stdout", "stderr"}

\* The budget of a tier, in seconds.
Budget(tier) ==
    CASE tier = "simple" -> 60
      [] tier = "standard" -> 90
      [] tier = "complex" -> 120
      [] OTHER -> 90

\* C18: the table of either entry point gives simple 60 s, standard 90 s,
\* complex 120 s and any other tier 90 s; and in both modes the budget
\* applied to a child is the budget of determine_complexity of its
\* transcription.
C18_SameBudget ==
    /\ \A tier \in {"simple", "standard", "complex", "urgent", ""} :
          timeout_map(tier) = Budget(tier) /\ ws_timeout_map(tier) = Budget(tier)
    /\ child # "none" => timeout = Budget(determine_complexity(transcription))

\* C18 witness: a streaming session of the complex tier was ended by its
\* budget of 120 seconds.
C18_Witness ==
    /\ mode = "ws" /\ child = "killed" /\ complexity = "complex" /\ clock > 120
    /\ \E i \in DOMAIN delivered : delivered[i] = Ev("error", "Command timed out", 120)

\* C19: whenever a complete event has been sent in a streaming session, the
\* child has closed its output, all of which was read, and has exited, and
\* the event's success flag is true exactly when the exit status is 0.
C19_CompleteAfterExit ==
    mode = "ws" =>
      \A i \in DOMAIN delivered :
         delivered[i].type = "complete" =>
           /\ child = "exited"
           /\ pipe = <<>> /\ buf = <<>>
           /\ delivered[i].n = 1 <=> exitCode = 0

\* C19 witness: a session completed with success=false after the child
\* wrote a line and exited with status 1.
C19_Witness ==
    /\ mode = "ws" /\ child = "exited" /\ exitCode = 1 /\ produced > 0
    /\ \E i \in DOMAIN delivered : delivered[i] = Ev("complete", complexity, 0)

\* The handler takes its step out of the grace wait that has expired.
GraceExpires == mode = "ws" /\ pc = "ws_wait" /\ Alive /\ pc' # pc

\* The handler takes the step of the TimeoutExpired handler that the grace
\* wait led to (the budget check kills the child before it raises).
GraceHandled == mode = "ws" /\ pc = "ws_send_timeout" /\ child # "killed" /\ pc' # pc

NoComplete(events) == \A i \in DOMAIN events : events[i].type # "complete"

\* C20: when the child has closed its output and the 5-second wait for its
\* exit expires, the handler goes to its timeout handler without sending
\* complete or logging an audit record; there, with the client connected,
\* it sends the timeout error event and then the child is not running, and
\* with the client gone it sends nothing and kills nothing; so a child
\* killed while its budget has not elapsed was killed after the error event
\* was delivered, in a session with no complete event and no audit record.
C20_GraceTimeout ==
    /\ [][GraceExpires =>
            /\ pc' = "ws_send_timeout"
            /\ UNCHANGED <<delivered, audit, procVars>>]_vars
    /\ [][GraceHandled =>
            IF client = "connected"
            THEN /\ delivered' = Append(delivered, TimeoutError)
                 /\ ~Alive'
                 /\ NoComplete(delivered') /\ audit' = 0
            ELSE UNCHANGED <<delivered, audit, procVars>>]_vars
    /\ []((mode = "ws" /\ child = "killed" /\ clock <= timeout) =>
            /\ delivered # <<>> /\ delivered[Len(delivered)] = TimeoutError
            /\ NoComplete(delivered) /\ audit = 0)

\* C20 witness: the child was killed after the grace wait, its budget not
\* elapsed, and the timeout error is the last event delivered.
C20_Witness ==
    /\ mode = "ws" /\ pc = "done" /\ child = "killed" /\ clock <= timeout
    /\ delivered[Len(delivered)] = TimeoutError /\ audit = 0

====
